---------------------------- MODULE Spec2Model ----------------------------
(***************************************************************************)
(* Model of mbrostami/consistenthash: the block-partitioned 32-bit ring    *)
(* (type ConsistentHash, src/consistenthash.go lines 190-578).             *)
(*                                                                         *)
(* A ring is a record holding the fields of the Go struct.  The blocks     *)
(* are Go slices, so they are modelled as slice headers (arr, off, len,    *)
(* cap) over backing arrays kept in the field "heap": two blocks that      *)
(* balanceBlocks cuts out of one slice share one backing array, and an     *)
(* append that has spare capacity writes into it.                          *)
(*                                                                         *)
(* The ring of positions is scaled from 32 bits to Width bits; hashes are  *)
(* drawn from HashRange.  The hash function is caller-supplied: it is an   *)
(* arbitrary function chosen in Init and never changed.                    *)
(*                                                                         *)
(* The 64-bit ring (type ConsistentHash64, src/consistenthash64.go) is a   *)
(* second record: a sorted sequence hKeys, the tables, and the blocks as   *)
(* pairs of indices into hKeys.  A ring built with WithReadLockFree owns   *)
(* a second ring, stale, that is given every write first.                  *)
(*                                                                         *)
(* Besides the sequential calls there are two specifications in which      *)
(* goroutines run the calls step by step: SpecLocked (the 32-bit ring      *)
(* under its RWMutex) and SpecLockFree (the 64-bit ring read without a     *)
(* lock).                                                                  *)
(***************************************************************************)
EXTENDS Integers, Sequences, FiniteSets, TLC

\* ------------------------------------------------------------------ bounds
\* Width of a ring position in bits (32 in the source).
Width == 8
\* Largest replica count passed to AddReplicas / WithDefaultReplicas.
MaxReplicas == 2
\* Largest divisor passed to WithBlockPartitioning.
MaxDivisor == 2
\* Largest number of values passed to one Add call.
MaxBatch == 2
\* Calls that would take totalKeys above MaxKeys are not made.
MaxKeys == 3
\* Calls that would take len(hKeys) of a ConsistentHash64 above MaxKeys64 are
\* not made.
MaxKeys64 == 4
\* BlocksAdd is not taken when it would raise totalKeys above MaxBlockKeys.
MaxBlockKeys == 5

\* math.MaxUint32, scaled to Width bits.
MaxUint32 == 2^Width - 1

\* The node values ([]byte) the callers use.
Values == {"a", "b"}
\* The positions the hash function may return for a value, and for a value
\* followed by a replica number.  Both hold 0 and the largest position of
\* the scaled ring or sit next to them; with 4 blocks of width 63 the
\* positions 0, 70, 130 lie in the blocks 0, 1, 2 and 255 in block 4.
HashRange == {0, 70, 130, 2^Width - 1}
ReplicaRange == {70, 2^Width - 1}
\* hash(key) for the keys passed to Get: the positions above, one between
\* each two of them, and one between the last and the end of the ring.
QueryHashes == {0, 50, 70, 100, 130, 200, 2^Width - 2, 2^Width - 1}

\* Results of Get that are not a stored value: a nil slice, and the runtime
\* panic "index out of range".
Nil == "<nil>"
Panic == "<panic>"

VARIABLES
    hash,   \* HashFunc: <<value, i>> |-> position; i = 0 is the value itself,
            \* i >= 1 is the value followed by the 4 little-endian bytes of i
    ch,     \* the ring under test
    ch2,    \* a second ring built with the same hash function
    added,  \* the values added to ch and not removed since
    added2, \* the values added to ch2 and not removed since
    last,   \* the last call made and what it returned
    mu,     \* ch.mu (sync.RWMutex): the writer holding it, the readers holding it
    pc,     \* goroutine |-> where it stands in its call
    call,   \* goroutine |-> the call it is in: arguments, locals, result
    committed, \* the ring as the last writer left it at its Unlock
    seen,   \* results the running Get may return: those of Get in the
            \* states between writes that the call has overlapped
    hash64, \* HashFunc64: <<value, i, n>> |-> position; n bytes of the
            \* replica number i follow the value (n = 0: the value itself)
    ch64,   \* the ConsistentHash64 under test
    ch64u,  \* a ConsistentHash64 without block partitioning given the same calls
    raced   \* the fields of ch64 the running Get has read while a write was
            \* mutating them

\* The variables of the goroutines, untouched by the sequential calls.
ring64 == <<hash64, ch64, ch64u, raced>>
others == <<mu, pc, call, committed, seen, hash64, ch64, ch64u, raced>>

vars == <<hash, ch, ch2, added, added2, last, mu, pc, call, committed, seen,
          hash64, ch64, ch64u, raced>>

\* ------------------------------------------------------------ Go maps
\* m[k] = v and delete(m, k).  (f @@ g is f extended by g; it is used here
\* so that the map is held as an explicit table.)
EmptyMap == [x \in {} |-> 0]
MapPut(m, k, v) == (k :> v) @@ m
MapDelete(m, k) == [x \in (DOMAIN m) \ {k} |-> m[x]] @@ EmptyMap

\* ------------------------------------------------------------ Go slices
\* type node struct { key, pointer uint32 }
node(key, pointer) == [key |-> key, pointer |-> pointer]
ZeroNode == node(0, 0)
\* The nil slice: what a map of slices yields for a missing key.
NilSlice == [arr |-> -1, off |-> 0, len |-> 0, cap |-> 0]

\* blocks[b] of a Go map: the nil slice when b is not a key.
BlockSlice(r, b) == IF b \in DOMAIN r.blocks THEN r.blocks[b] ELSE NilSlice
\* s[i], 0-based.
At(r, s, i) == r.heap[s.arr][s.off + i + 1]
\* The elements of a slice as a sequence.
Elems(r, s) == IF s.len = 0 THEN << >>
               ELSE SubSeq(r.heap[s.arr], s.off + 1, s.off + s.len)
\* len(ch.blocks[b]) and the elements of ch.blocks[b].
BlockNodes(r, b) == Elems(r, BlockSlice(r, b))

\* The capacity the Go runtime gives a slice of 8-byte elements that has to
\* grow from oldCap to hold newLen elements (runtime.growslice: double, or
\* the needed length if that is more, rounded up to a malloc size class).
GrowCap(oldCap, newLen) ==
    LET want == IF newLen > 2 * oldCap THEN newLen ELSE 2 * oldCap
    IN  IF want <= 4 THEN want ELSE want + (want % 2)

\* A fresh backing array: Reclaim names the arrays in use by block numbers,
\* and no call removes an array before it ends.
NewArr(r) == MaxUint32 + 1 + Cardinality(DOMAIN r.heap)

\* append(s, elems...): in place when the capacity suffices, else into a
\* new array.  Returns the ring with the heap updated and the new header.
GoAppend(r, s, elems) ==
    LET n == Len(elems) IN
    IF n = 0 THEN [r |-> r, s |-> s]
    ELSE IF s.len + n <= s.cap THEN
        [r |-> [r EXCEPT !.heap[s.arr] =
                    SubSeq(@, 1, s.off + s.len) \o elems
                        \o SubSeq(@, s.off + s.len + n + 1, Len(@))],
         s |-> [s EXCEPT !.len = s.len + n]]
    ELSE
        LET a == NewArr(r)
            c == GrowCap(s.cap, s.len + n)
            old == Elems(r, s)
        IN  [r |-> [r EXCEPT !.heap = MapPut(@, a,
                        old \o elems \o [i \in 1..(c - s.len - n) |-> ZeroNode])],
             s |-> [arr |-> a, off |-> 0, len |-> s.len + n, cap |-> c]]

\* sort.Search(n, func(i) { return nodes[i].key >= hash }) over [i, j).
RECURSIVE Search(_, _, _, _)
Search(nodes, h, i, j) ==
    IF i < j
    THEN LET m == (i + j) \div 2 IN
         IF nodes[m + 1].key >= h THEN Search(nodes, h, i, m)
         ELSE Search(nodes, h, m + 1, j)
    ELSE i

\* sort.Slice(nodes, less by key): below 12 elements the library sorts by
\* insertion, moving an element left while it is smaller than its neighbour.
RECURSIVE InsertSorted(_, _)
InsertSorted(sorted, n) ==
    IF sorted = << >> \/ ~(n.key < sorted[Len(sorted)].key)
    THEN Append(sorted, n)
    ELSE Append(InsertSorted(SubSeq(sorted, 1, Len(sorted) - 1), n), sorted[Len(sorted)])

RECURSIVE SortSlice(_)
SortSlice(nodes) ==
    IF nodes = << >> THEN << >>
    ELSE InsertSorted(SortSlice(SubSeq(nodes, 1, Len(nodes) - 1)), nodes[Len(nodes)])

\* uint32 arithmetic, scaled to Width bits.
U32(x) == x % (2^Width)

\* ------------------------------------------------------------ the ring
\* New(opts...): defaultReplicas below 1 becomes 1, blockPartitioning below 1
\* becomes 1, one block, no keys.
New(defaultReplicas, divisionBy) ==
    [replicas          |-> IF defaultReplicas < 1 THEN 1 ELSE defaultReplicas,
     blockPartitioning |-> IF divisionBy < 1 THEN 1 ELSE divisionBy,
     hTable            |-> EmptyMap,
     rTable            |-> EmptyMap,
     blocks            |-> EmptyMap,
     heap              |-> EmptyMap,
     totalBlocks       |-> 1,
     totalKeys         |-> 0]

IsEmpty(r) == r.totalKeys = 0

\* addNode: insert one node into the block of its key, ignoring a key the
\* block already holds.
addNode(r, n) ==
    LET blockSize == MaxUint32 \div r.totalBlocks
        blockNumber == n.key \div blockSize
    IN  IF blockNumber \notin DOMAIN r.blocks
        THEN LET a == NewArr(r) IN
             [r EXCEPT !.heap = MapPut(@, a, <<n>>),
                       !.blocks = MapPut(@, blockNumber,
                                    [arr |-> a, off |-> 0, len |-> 1, cap |-> 1]),
                       !.totalKeys = U32(@ + 1)]
        ELSE LET s == r.blocks[blockNumber]
                 nodes == Elems(r, s)
                 idx == Search(nodes, n.key, 0, s.len)
             IN  IF idx < s.len /\ nodes[idx + 1].key = n.key
                 THEN r
                 ELSE LET tail == <<n>> \o SubSeq(nodes, idx + 1, s.len)
                          res == GoAppend(r, [s EXCEPT !.len = idx], tail)
                      IN  [res.r EXCEPT !.blocks[blockNumber] = res.s,
                                        !.totalKeys = U32(@ + 1)]

\* The inner scan of balanceBlocks: the first j >= i with j = len(nodes) or
\* nodes[j] outside targetBlock.
RECURSIVE scanTarget(_, _, _, _, _)
scanTarget(r, s, j, targetBlock, blockSize) ==
    IF j < s.len /\ At(r, s, j).key \div blockSize = targetBlock
    THEN scanTarget(r, s, j + 1, targetBlock, blockSize)
    ELSE j

\* The loop of balanceBlocks over the nodes of one block; s is the slice
\* header read at the start (nodes), i the loop index.
RECURSIVE balanceBlock(_, _, _, _, _, _)
balanceBlock(r, blockNumber, s, i, targetBlock, blockSize) ==
    IF ~(i < s.len) THEN r
    ELSE IF At(r, s, i).key \div blockSize = targetBlock
    THEN balanceBlock(r, blockNumber, s, i + 1, targetBlock, blockSize)
    ELSE
        LET r1 == IF targetBlock = blockNumber
                  THEN [r EXCEPT !.blocks = MapPut(@, blockNumber,
                                    [s EXCEPT !.len = i, !.cap = i])]
                  ELSE r
            t == targetBlock + 1
            j == scanTarget(r1, s, i, t, blockSize)
            res == GoAppend(r1,
                            [arr |-> s.arr, off |-> s.off + i,
                             len |-> j - i, cap |-> s.cap - i],
                            BlockNodes(r1, t))
            r2 == IF i # j
                  THEN [res.r EXCEPT !.blocks = MapPut(@, t, res.s)]
                  ELSE r1
        IN  balanceBlock(r2, blockNumber, s, (IF i # j THEN j ELSE i) + 1, t, blockSize)

\* The loop of balanceBlocks over the block numbers 0 .. expectedBlocks-2.
RECURSIVE balanceFrom(_, _, _)
balanceFrom(r, blockNumber, expectedBlocks) ==
    IF blockNumber < expectedBlocks - 1
    THEN balanceFrom(
            balanceBlock(r, blockNumber, BlockSlice(r, blockNumber), 0, blockNumber,
                         MaxUint32 \div expectedBlocks),
            blockNumber + 1, expectedBlocks)
    ELSE r

\* balanceBlocks with the branch the source leaves empty filled in: the ring
\* also shrinks to expectedBlocks when that is below half of totalBlocks.
balanceBlocksShrink(r, expectedBlocks) ==
    LET r1 == IF (expectedBlocks \div 2) > r.totalBlocks
              THEN [balanceFrom(r, 0, expectedBlocks) EXCEPT !.totalBlocks = expectedBlocks]
              ELSE IF expectedBlocks < (r.totalBlocks \div 2)
              THEN [r EXCEPT !.totalBlocks = expectedBlocks]
              ELSE r
    IN  IF r1.totalBlocks < 1 THEN [r1 EXCEPT !.totalBlocks = 1] ELSE r1

\* balanceBlocks: grow to expectedBlocks when half of it exceeds totalBlocks;
\* the shrinking branch is empty.
balanceBlocks(r, expectedBlocks) ==
    LET r1 == IF (expectedBlocks \div 2) > r.totalBlocks
              THEN [balanceFrom(r, 0, expectedBlocks) EXCEPT !.totalBlocks = expectedBlocks]
              ELSE r
    IN  IF r1.totalBlocks < 1 THEN [r1 EXCEPT !.totalBlocks = 1] ELSE r1

RECURSIVE addEach(_, _, _)
addEach(r, nodes, i) ==
    IF i <= Len(nodes) THEN addEach(addNode(r, nodes[i]), nodes, i + 1) ELSE r

\* addNodes: sort the new nodes, rebalance for the expected size, insert.
addNodes(r, nodes) ==
    LET expectedBlocks == U32(r.totalKeys + Len(nodes)) \div r.blockPartitioning
    IN  addEach(balanceBlocks(r, expectedBlocks), SortSlice(nodes), 1)

\* The loop of add over the keys.  st carries the ring, the collected nodes
\* and the local variable "hash" (declared before the loop, assigned only
\* when a replica hash is computed).
RECURSIVE addKeys(_, _, _, _)
addKeys(st, replicas, keys, idx) ==
    IF idx > Len(keys) THEN st
    ELSE
        LET key == keys[idx]
            originalHash == hash[<<key, 0>>]
            h == IF replicas > 1 THEN hash[<<key, replicas - 1>>] ELSE st.hash
            r1 == [st.r EXCEPT !.hTable = MapPut(@, originalHash, key)]
            r2 == IF replicas # r1.replicas
                  THEN [r1 EXCEPT !.rTable = MapPut(@, h, replicas)]
                  ELSE r1
        IN  addKeys([r |-> r2,
                     nodes |-> st.nodes \o <<node(originalHash, originalHash)>>
                                \o [i \in 1..(replicas - 1) |->
                                        node(hash[<<key, i>>], originalHash)],
                     hash |-> h],
                    replicas, keys, idx + 1)

\* add(replicas, keys...)
add(r, replicas, keys) ==
    LET st == addKeys([r |-> r, nodes |-> << >>, hash |-> 0], replicas, keys, 1)
    IN  addNodes(st.r, st.nodes)

\* ch.hTable[p]: nil when p is not a key.
TableBytes(r, p) == IF p \in DOMAIN r.hTable THEN r.hTable[p] ELSE Nil

\* The end of lookup: for j = 0 .. len(ch.blocks)-1, the first j with a
\* non-empty blocks[j] makes it return the owner of ch.blocks[0][0].
RECURSIVE firstBlock(_, _)
firstBlock(r, j) ==
    IF j < Cardinality(DOMAIN r.blocks)
    THEN IF BlockSlice(r, j).len > 0
         THEN IF BlockSlice(r, 0).len > 0
              THEN [v |-> TableBytes(r, At(r, BlockSlice(r, 0), 0).pointer), blockNumber |-> 0]
              ELSE [v |-> Panic, blockNumber |-> 0]
         ELSE firstBlock(r, j + 1)
    ELSE [v |-> Nil, blockNumber |-> r.totalBlocks]

\* The block walk of lookup.
RECURSIVE lookupFrom(_, _, _, _)
lookupFrom(r, h, blockNumber, fullCircle) ==
    IF blockNumber < r.totalBlocks
    THEN IF blockNumber \notin DOMAIN r.blocks
         THEN lookupFrom(r, h, blockNumber + 1, fullCircle)
         ELSE LET nodes == BlockNodes(r, blockNumber)
                  idx == Search(nodes, h, 0, Len(nodes))
              IN  IF idx = Len(nodes)
                  THEN IF blockNumber = r.totalBlocks - 1 /\ ~fullCircle
                       THEN lookupFrom(r, h, 0 + 1, TRUE)
                       ELSE lookupFrom(r, h, blockNumber + 1, fullCircle)
                  ELSE [v |-> TableBytes(r, nodes[idx + 1].pointer),
                        blockNumber |-> blockNumber]
    ELSE IF blockNumber = r.totalBlocks
         THEN firstBlock(r, 0)
         ELSE [v |-> Nil, blockNumber |-> blockNumber]

\* The blocks lookup looks at, in order: the block walk as in lookupFrom,
\* then the blocks j the final loop tests.  A terminating walk passes each
\* block number at most twice (once before and once after the wrap), so the
\* walk is cut off, with done = FALSE, once it is longer than that -- which
\* no terminating walk is.
WalkLimit(r) == 2 * r.totalBlocks + 1
RECURSIVE finalLoop(_, _, _)
finalLoop(r, j, visits) ==
    IF j < Cardinality(DOMAIN r.blocks)
    THEN IF BlockSlice(r, j).len > 0
         THEN [visits |-> visits, final |-> j + 1, done |-> TRUE]
         ELSE finalLoop(r, j + 1, visits)
    ELSE [visits |-> visits, final |-> j, done |-> TRUE]

\* The block walk that goes back to the first block whenever the last block
\* has no answer, without the fullCircle flag.
RECURSIVE lookupWalkNoFlag(_, _, _, _, _)
lookupWalkNoFlag(r, h, blockNumber, fullCircle, visits) ==
    IF Len(visits) > WalkLimit(r)
    THEN [visits |-> visits, final |-> 0, done |-> FALSE]
    ELSE IF blockNumber < r.totalBlocks
    THEN IF blockNumber \notin DOMAIN r.blocks
         THEN lookupWalkNoFlag(r, h, blockNumber + 1, fullCircle,
                               Append(visits, blockNumber))
         ELSE LET nodes == BlockNodes(r, blockNumber)
                  idx == Search(nodes, h, 0, Len(nodes))
              IN  IF idx = Len(nodes)
                  THEN IF blockNumber = r.totalBlocks - 1
                       THEN lookupWalkNoFlag(r, h, 0 + 1, TRUE,
                                             Append(visits, blockNumber))
                       ELSE lookupWalkNoFlag(r, h, blockNumber + 1, fullCircle,
                                             Append(visits, blockNumber))
                  ELSE [visits |-> Append(visits, blockNumber), final |-> 0,
                        done |-> TRUE]
    ELSE IF blockNumber = r.totalBlocks
         THEN finalLoop(r, 0, visits)
         ELSE [visits |-> visits, final |-> 0, done |-> TRUE]

RECURSIVE lookupWalk(_, _, _, _, _)
lookupWalk(r, h, blockNumber, fullCircle, visits) ==
    IF Len(visits) > WalkLimit(r)
    THEN [visits |-> visits, final |-> 0, done |-> FALSE]
    ELSE IF blockNumber < r.totalBlocks
    THEN IF blockNumber \notin DOMAIN r.blocks
         THEN lookupWalk(r, h, blockNumber + 1, fullCircle,
                         Append(visits, blockNumber))
         ELSE LET nodes == BlockNodes(r, blockNumber)
                  idx == Search(nodes, h, 0, Len(nodes))
              IN  IF idx = Len(nodes)
                  THEN IF blockNumber = r.totalBlocks - 1 /\ ~fullCircle
                       THEN lookupWalk(r, h, 0 + 1, TRUE,
                                       Append(visits, blockNumber))
                       ELSE lookupWalk(r, h, blockNumber + 1, fullCircle,
                                       Append(visits, blockNumber))
                  ELSE [visits |-> Append(visits, blockNumber), final |-> 0,
                        done |-> TRUE]
    ELSE IF blockNumber = r.totalBlocks
         THEN finalLoop(r, 0, visits)
         ELSE [visits |-> visits, final |-> 0, done |-> TRUE]

\* lookup(hash): the bytes found and the block number.
lookup(r, h) == lookupFrom(r, h, h \div (MaxUint32 \div r.totalBlocks), FALSE)

\* Get(key), for a key with hash(key) = h.
Get(r, h) ==
    IF IsEmpty(r) THEN Nil
    ELSE IF h \in DOMAIN r.hTable THEN r.hTable[h]
    ELSE lookup(r, h).v

\* The index of the first node of nodes with the key h, 0 when there is none
\* (1-based).
RECURSIVE indexOfKey(_, _, _)
indexOfKey(nodes, h, i) ==
    IF i > Len(nodes) THEN 0
    ELSE IF nodes[i].key = h THEN i
    ELSE indexOfKey(nodes, h, i + 1)

\* removeFromBlock(hash, originalHash)
removeFromBlock(r, h, originalHash) ==
    LET blockSize == MaxUint32 \div r.totalBlocks
        blockNumber == h \div blockSize
    IN  IF blockNumber \notin DOMAIN r.blocks THEN r
        ELSE
            LET s == r.blocks[blockNumber]
                nodes == Elems(r, s)
                i == indexOfKey(nodes, h, 1)
                res == GoAppend(r, [s EXCEPT !.len = i - 1], SubSeq(nodes, i + 1, s.len))
                r1 == IF i = 0 THEN r
                      ELSE [res.r EXCEPT !.blocks[blockNumber] = res.s,
                                         !.totalKeys = U32(@ - 1)]
            IN  IF originalHash = h
                THEN [r1 EXCEPT !.hTable = MapDelete(@, originalHash)]
                ELSE r1

RECURSIVE removeReplicas(_, _, _, _)
removeReplicas(r, key, i, replicas) ==
    IF i < replicas
    THEN removeReplicas(removeFromBlock(r, hash[<<key, i>>], hash[<<key, 0>>]),
                        key, i + 1, replicas)
    ELSE r

\* Remove(key): the ring after the call (the call returns true on every path).
Remove(r, key) ==
    IF IsEmpty(r) THEN r
    ELSE
        LET originalHash == hash[<<key, 0>>]
            found == originalHash \in DOMAIN r.rTable
            replicas == IF found THEN r.rTable[originalHash] ELSE r.replicas
            r1 == removeReplicas(removeFromBlock(r, originalHash, originalHash),
                                 key, 1, replicas)
        IN  IF found THEN [r1 EXCEPT !.rTable = MapDelete(@, originalHash)] ELSE r1

\* Add(keys...)
Add(r, keys) == add(r, r.replicas, keys)

\* AddReplicas without its first statement, the return on replicas < 1.
AddReplicasNoGuard(r, replicas, keys) == add(r, replicas, keys)

\* AddReplicas(replicas, keys...)
AddReplicas(r, replicas, keys) == IF replicas < 1 THEN r ELSE add(r, replicas, keys)

\* ------------------------------------------------- memory that cannot be seen
\* Backing arrays no block refers to are garbage; a cell outside every
\* block's [off, off+cap) cannot be reached, and a cell outside every block's
\* [off, off+len) is never read before it is written.  Reclaim drops the
\* first, cuts off the second, clears the third and names each array by the
\* lowest block that uses it, so that equal rings are equal states.
Min(S) == CHOOSE x \in S : \A y \in S : x <= y
Max(S) == CHOOSE x \in S : \A y \in S : x >= y
LiveBlocks(r) == {b \in DOMAIN r.blocks : r.blocks[b].cap > 0}
Sharing(r, b) == {c \in LiveBlocks(r) : r.blocks[c].arr = r.blocks[b].arr}
Lowest(r, b) == Min({r.blocks[c].off : c \in Sharing(r, b)})
Highest(r, b) == Max({r.blocks[c].off + r.blocks[c].cap : c \in Sharing(r, b)})
Reclaim(r) ==
    [r EXCEPT
        !.blocks = [b \in DOMAIN r.blocks |->
                        IF r.blocks[b].cap > 0
                        THEN [r.blocks[b] EXCEPT !.arr = Min(Sharing(r, b)),
                                                 !.off = @ - Lowest(r, b)]
                        ELSE NilSlice] @@ EmptyMap,
        !.heap = [o \in {Min(Sharing(r, b)) : b \in LiveBlocks(r)} |->
                    [c \in 1..(Highest(r, o) - Lowest(r, o)) |->
                        IF \E b \in Sharing(r, o) :
                              /\ c + Lowest(r, o) > r.blocks[b].off
                              /\ c + Lowest(r, o) <= r.blocks[b].off + r.blocks[b].len
                        THEN r.heap[r.blocks[o].arr][c + Lowest(r, o)]
                        ELSE ZeroNode] \o << >>] @@ EmptyMap]

\* ------------------------------------------------------------ the calls
\* The arguments the callers pass.
Range(seq) == {seq[i] : i \in 1..Len(seq)}
HashInputs == Values \X (0..(MaxReplicas - 1))
Batches == UNION {[1..n -> Values] : n \in 1..MaxBatch}

\* The hash functions tried: a value hashes into HashRange, a value followed
\* by a replica number into ReplicaRange.  The two values are interchangeable,
\* so only the functions with hash("a") <= hash("b") are tried.
HashFuncs ==
    {f \in [HashInputs -> HashRange \cup ReplicaRange] :
        /\ \A v \in Values : f[<<v, 0>>] \in HashRange
        /\ \A v \in Values, i \in 1..(MaxReplicas - 1) : f[<<v, i>>] \in ReplicaRange
        /\ f[<<"a", 0>>] <= f[<<"b", 0>>]}

Call(op, ret) == [op |-> op, ret |-> ret]

\* The goroutines: two that write (TestConcurrency, benchmarkConcurrent) and
\* one that reads.
Writers == {"w1", "w2"}
Readers == {"r1"}
Procs == Writers \cup Readers

\* A call in progress: its name, its arguments (key; replicas; h = hash(key)
\* of a Get), the local slice "nodes" of add, and the result.
Frame(op, key, replicas, h) ==
    [op |-> op, key |-> key, replicas |-> replicas, h |-> h,
     nodes |-> << >>, ret |-> Nil]
NoCall == Frame("none", Nil, 0, 0)
NoLock == [writer |-> Nil, readers |-> {}]

\* No goroutine is in a call.
InitGoroutines ==
    /\ mu = NoLock
    /\ pc = [p \in Procs |-> "idle"]
    /\ call = [p \in Procs |-> NoCall]
    /\ seen = {}

\* No ConsistentHash64 is built.
InitOthers ==
    /\ InitGoroutines
    /\ committed = ch
    /\ hash64 = EmptyMap
    /\ ch64 = EmptyMap
    /\ ch64u = EmptyMap
    /\ raced = {}

Init ==
    /\ hash \in HashFuncs
    /\ \E dr \in 0..MaxReplicas, d \in 0..MaxDivisor :
          /\ ch = New(dr, d)
          /\ ch2 = New(dr, d)
    /\ added = {}
    /\ added2 = {}
    /\ last = Call("New", Nil)
    /\ InitOthers

CallAdd(keys) ==
    /\ ch' = Reclaim(Add(ch, keys))
    /\ ch'.totalKeys <= MaxKeys
    /\ added' = added \cup Range(keys)
    /\ last' = Call("Add", Nil)
    /\ UNCHANGED <<hash, ch2, added2>>
    /\ UNCHANGED others

CallAddReplicas(replicas, key) ==
    /\ ch' = Reclaim(AddReplicas(ch, replicas, <<key>>))
    /\ ch'.totalKeys <= MaxKeys
    /\ added' = IF replicas < 1 THEN added ELSE added \cup {key}
    /\ last' = Call("AddReplicas", Nil)
    /\ UNCHANGED <<hash, ch2, added2>>
    /\ UNCHANGED others

CallRemove(key) ==
    /\ ch' = Reclaim(Remove(ch, key))
    /\ added' = added \ {key}
    /\ last' = Call("Remove", "true")
    /\ UNCHANGED <<hash, ch2, added2>>
    /\ UNCHANGED others

CallGet(h) ==
    /\ last' = Call("Get", Get(ch, h))
    /\ UNCHANGED <<hash, ch, ch2, added, added2>>
    /\ UNCHANGED others

Next ==
    \/ \E keys \in Batches : CallAdd(keys)
    \/ \E replicas \in 0..MaxReplicas, key \in Values : CallAddReplicas(replicas, key)
    \/ \E key \in Values : CallRemove(key)
    \/ \E h \in QueryHashes : CallGet(h)

Spec == Init /\ [][Next]_vars

\* Two rings with the same hash function and configuration, each fed Add
\* calls of single values in an order of its own (TestConsistency).
AddFirst(key) ==
    /\ key \notin added
    /\ ch' = Reclaim(Add(ch, <<key>>))
    /\ added' = added \cup {key}
    /\ UNCHANGED <<hash, ch2, added2, last>>
    /\ UNCHANGED others

AddSecond(key) ==
    /\ key \notin added2
    /\ ch2' = Reclaim(Add(ch2, <<key>>))
    /\ added2' = added2 \cup {key}
    /\ UNCHANGED <<hash, ch, added, last>>
    /\ UNCHANGED others

NextOrder ==
    \/ \E key \in Values : AddFirst(key)
    \/ \E key \in Values : AddSecond(key)

SpecOrder == Init /\ [][NextOrder]_vars

\* Two rings that differ only in blockPartitioning, fed the same calls.
InitDivisors ==
    /\ hash \in HashFuncs
    /\ \E defaultReplicas \in 0..MaxReplicas, d1, d2 \in 1..MaxDivisor :
        /\ d1 < d2
        /\ ch = New(defaultReplicas, d1)
        /\ ch2 = New(defaultReplicas, d2)
    /\ added = {}
    /\ added2 = {}
    /\ last = Call("New", Nil)
    /\ InitOthers

BothAdd(keys) ==
    /\ ch' = Reclaim(Add(ch, keys))
    /\ ch2' = Reclaim(Add(ch2, keys))
    /\ ch'.totalKeys <= MaxKeys /\ ch2'.totalKeys <= MaxKeys
    /\ added' = added \cup Range(keys)
    /\ added2' = added2 \cup Range(keys)
    /\ UNCHANGED <<hash, last>>
    /\ UNCHANGED others

BothAddReplicas(replicas, key) ==
    /\ ch' = Reclaim(AddReplicas(ch, replicas, <<key>>))
    /\ ch2' = Reclaim(AddReplicas(ch2, replicas, <<key>>))
    /\ ch'.totalKeys <= MaxKeys /\ ch2'.totalKeys <= MaxKeys
    /\ added' = IF replicas < 1 THEN added ELSE added \cup {key}
    /\ added2' = IF replicas < 1 THEN added2 ELSE added2 \cup {key}
    /\ UNCHANGED <<hash, last>>
    /\ UNCHANGED others

BothRemove(key) ==
    /\ ch' = Reclaim(Remove(ch, key))
    /\ ch2' = Reclaim(Remove(ch2, key))
    /\ added' = added \ {key}
    /\ added2' = added2 \ {key}
    /\ UNCHANGED <<hash, last>>
    /\ UNCHANGED others

NextDivisors ==
    \/ \E keys \in Batches : BothAdd(keys)
    \/ \E replicas \in 0..MaxReplicas, key \in Values :
        BothAddReplicas(replicas, key)
    \/ \E key \in Values : BothRemove(key)

SpecDivisors == InitDivisors /\ [][NextDivisors]_vars

\* ------------------------------------------- goroutines on one locked ring
\* Writers and a reader call Add, AddReplicas, Remove and Get on ch at the
\* same time.  A call is cut where another goroutine can step in: at the
\* reads made before the lock is taken, at Lock / RLock, between the two
\* halves of the mutation made under the lock, and at Unlock / RUnlock.
LockedHashFuncs ==
    {f \in HashFuncs : /\ f[<<"a", 0>>] = 0 /\ f[<<"a", 1>>] = 70
                       /\ f[<<"b", 0>>] = 130 /\ f[<<"b", 1>>] = 2^Width - 1}

\* The hashes the reader asks for: a stored position, one between two
\* positions, and the two ends of the ring.
LockedQueries == {0, 100, 130, 2^Width - 1}

InitLocked ==
    /\ hash \in LockedHashFuncs
    /\ ch = New(1, 1)
    /\ ch2 = ch
    /\ added = {}
    /\ added2 = {}
    /\ last = Call("New", Nil)
    /\ InitOthers

\* The labels at which a writer is inside its mutation, holding ch.mu.
Mutating == {"tables", "nodes", "original", "replicas", "unlock"}

\* Remove after its first removeFromBlock: the loop over the replicas and
\* the delete from rTable.
removeRest(r, key) ==
    LET originalHash == hash[<<key, 0>>]
        found == originalHash \in DOMAIN r.rTable
        replicas == IF found THEN r.rTable[originalHash] ELSE r.replicas
        r1 == removeReplicas(r, key, 1, replicas)
    IN  IF found THEN [r1 EXCEPT !.rTable = MapDelete(@, originalHash)] ELSE r1

\* The ring a writer that holds the lock will leave at its Unlock.
Finish(w) ==
    LET c == call[w]
        originalHash == hash[<<c.key, 0>>]
    IN  CASE pc[w] = "tables" -> Reclaim(add(ch, c.replicas, <<c.key>>))
          [] pc[w] = "nodes" -> Reclaim(addNodes(ch, c.nodes))
          [] pc[w] = "original" ->
                Reclaim(removeRest(removeFromBlock(ch, originalHash, originalHash),
                                   c.key))
          [] pc[w] = "replicas" -> Reclaim(removeRest(ch, c.key))
          [] OTHER -> ch

\* Remove's ch.mu.Lock() without the wait for the mutex.
LockRemoveNoWait(w) ==
    /\ pc[w] = "lock"
    /\ mu' = [mu EXCEPT !.writer = w]
    /\ pc' = [pc EXCEPT ![w] = "original"]
    /\ UNCHANGED <<hash, ch, ch2, added, added2, last, call, committed, seen>>
    /\ UNCHANGED ring64

\* Add(key): ch.mu.Lock() is its first statement, so the call starts when
\* the mutex is free; the ring is kept within MaxKeys positions.
LockAdd(w, key) ==
    /\ pc[w] = "idle"
    /\ mu = NoLock
    /\ Reclaim(add(ch, ch.replicas, <<key>>)).totalKeys <= MaxKeys
    /\ mu' = [mu EXCEPT !.writer = w]
    /\ pc' = [pc EXCEPT ![w] = "tables"]
    /\ call' = [call EXCEPT ![w] = Frame("add", key, ch.replicas, 0)]
    /\ UNCHANGED <<hash, ch, ch2, added, added2, last, committed, seen>>
    /\ UNCHANGED ring64

\* AddReplicas(replicas, key): returns at once when replicas < 1, and
\* otherwise takes the lock and calls add as Add does.
LockAddReplicas(w, replicas, key) ==
    /\ pc[w] = "idle"
    /\ IF replicas < 1
       THEN UNCHANGED <<mu, pc, call>>
       ELSE /\ mu = NoLock
            /\ Reclaim(add(ch, replicas, <<key>>)).totalKeys <= MaxKeys
            /\ mu' = [mu EXCEPT !.writer = w]
            /\ pc' = [pc EXCEPT ![w] = "tables"]
            /\ call' = [call EXCEPT ![w] = Frame("add", key, replicas, 0)]
    /\ UNCHANGED <<hash, ch, ch2, added, added2, last, committed, seen>>
    /\ UNCHANGED ring64

\* Remove(key): IsEmpty is read before the lock is taken; an empty ring
\* makes the call return true at once.
StartRemove(w, key) ==
    /\ pc[w] = "idle"
    /\ pc' = [pc EXCEPT ![w] = IF IsEmpty(ch) THEN "idle" ELSE "lock"]
    /\ call' = [call EXCEPT ![w] = IF IsEmpty(ch) THEN NoCall
                                  ELSE Frame("Remove", key, 0, 0)]
    /\ UNCHANGED <<hash, ch, ch2, added, added2, last, mu, committed, seen>>
    /\ UNCHANGED ring64

\* Remove's ch.mu.Lock(): waits until no goroutine holds the mutex.
LockRemove(w) ==
    /\ pc[w] = "lock"
    /\ mu = NoLock
    /\ mu' = [mu EXCEPT !.writer = w]
    /\ pc' = [pc EXCEPT ![w] = "original"]
    /\ UNCHANGED <<hash, ch, ch2, added, added2, last, call, committed, seen>>
    /\ UNCHANGED ring64

\* add, first half: the loop over the keys, which writes hTable and rTable
\* and collects the nodes.
AddTables(w) ==
    /\ pc[w] = "tables"
    /\ LET st == addKeys([r |-> ch, nodes |-> << >>, hash |-> 0],
                         call[w].replicas, <<call[w].key>>, 1)
       IN  /\ ch' = st.r
           /\ call' = [call EXCEPT ![w].nodes = st.nodes \o << >>]
    /\ pc' = [pc EXCEPT ![w] = "nodes"]
    /\ UNCHANGED <<hash, ch2, added, added2, last, mu, committed, seen>>
    /\ UNCHANGED ring64

\* add, second half: addNodes rebalances the blocks and inserts the nodes.
AddNodes(w) ==
    /\ pc[w] = "nodes"
    /\ ch' = Reclaim(addNodes(ch, call[w].nodes))
    /\ pc' = [pc EXCEPT ![w] = "unlock"]
    /\ UNCHANGED <<hash, ch2, added, added2, last, mu, call, committed, seen>>
    /\ UNCHANGED ring64

\* Remove, first half: the canonical position leaves its block and hTable.
RemoveOriginal(w) ==
    /\ pc[w] = "original"
    /\ ch' = Reclaim(removeFromBlock(ch, hash[<<call[w].key, 0>>],
                                     hash[<<call[w].key, 0>>]))
    /\ pc' = [pc EXCEPT ![w] = "replicas"]
    /\ UNCHANGED <<hash, ch2, added, added2, last, mu, call, committed, seen>>
    /\ UNCHANGED ring64

\* Remove, second half: the replica positions and the rTable entry.
RemoveReplicas(w) ==
    /\ pc[w] = "replicas"
    /\ ch' = Reclaim(removeRest(ch, call[w].key))
    /\ pc' = [pc EXCEPT ![w] = "unlock"]
    /\ UNCHANGED <<hash, ch2, added, added2, last, mu, call, committed, seen>>
    /\ UNCHANGED ring64

\* defer ch.mu.Unlock(): the write is complete; a Get that is running has
\* overlapped it and may return what Get gives from here on.
Unlock(w) ==
    /\ pc[w] = "unlock"
    /\ mu' = NoLock
    /\ pc' = [pc EXCEPT ![w] = "idle"]
    /\ call' = [call EXCEPT ![w] = NoCall]
    /\ committed' = ch
    /\ seen' = seen \cup {Get(ch, call[r].h) :
                            r \in {x \in Readers : pc[x] \in {"rlock", "read", "runlock"}}}
    /\ UNCHANGED <<hash, ch, ch2, added, added2, last>>
    /\ UNCHANGED ring64

\* Get(key), before the lock: IsEmpty reads totalKeys, whatever a writer
\* has made of it so far; zero makes Get return nil at once.
GetIsEmpty(r, h) ==
    /\ pc[r] = "idle"
    /\ pc' = [pc EXCEPT ![r] = IF IsEmpty(ch) THEN "done" ELSE "rlock"]
    /\ call' = [call EXCEPT ![r] = Frame("Get", Nil, 0, h)]
    /\ seen' = {Get(committed, h)}
                \cup {Get(Finish(w), h) : w \in {x \in Writers : mu.writer = x}}
    /\ UNCHANGED <<hash, ch, ch2, added, added2, last, mu, committed>>
    /\ UNCHANGED ring64

\* ch.mu.RLock(): waits while a writer holds the mutex.
RLock(r) ==
    /\ pc[r] = "rlock"
    /\ mu.writer = Nil
    /\ mu' = [mu EXCEPT !.readers = @ \cup {r}]
    /\ pc' = [pc EXCEPT ![r] = "read"]
    /\ UNCHANGED <<hash, ch, ch2, added, added2, last, call, committed, seen>>
    /\ UNCHANGED ring64

\* The exact-match check in hTable, then lookup.
Read(r) ==
    /\ pc[r] = "read"
    /\ call' = [call EXCEPT ![r].ret =
                    IF call[r].h \in DOMAIN ch.hTable THEN ch.hTable[call[r].h]
                    ELSE lookup(ch, call[r].h).v]
    /\ pc' = [pc EXCEPT ![r] = "runlock"]
    /\ UNCHANGED <<hash, ch, ch2, added, added2, last, mu, committed, seen>>
    /\ UNCHANGED ring64

\* defer ch.mu.RUnlock(): Get returns call[r].ret to its caller.
RUnlock(r) ==
    /\ pc[r] = "runlock"
    /\ mu' = [mu EXCEPT !.readers = @ \ {r}]
    /\ pc' = [pc EXCEPT ![r] = "idle"]
    /\ call' = [call EXCEPT ![r] = NoCall]
    /\ seen' = {}
    /\ UNCHANGED <<hash, ch, ch2, added, added2, last, committed>>
    /\ UNCHANGED ring64

\* Get returns nil to its caller without having taken the lock.
Return(r) ==
    /\ pc[r] = "done"
    /\ pc' = [pc EXCEPT ![r] = "idle"]
    /\ call' = [call EXCEPT ![r] = NoCall]
    /\ seen' = {}
    /\ UNCHANGED <<hash, ch, ch2, added, added2, last, mu, committed>>
    /\ UNCHANGED ring64

NextLocked ==
    \/ \E w \in Writers, key \in Values : LockAdd(w, key)
    \/ \E w \in Writers, replicas \in 0..MaxReplicas, key \in Values :
        LockAddReplicas(w, replicas, key)
    \/ \E w \in Writers, key \in Values : StartRemove(w, key)
    \/ \E w \in Writers : LockRemove(w)
    \/ \E w \in Writers : AddTables(w)
    \/ \E w \in Writers : AddNodes(w)
    \/ \E w \in Writers : RemoveOriginal(w)
    \/ \E w \in Writers : RemoveReplicas(w)
    \/ \E w \in Writers : Unlock(w)
    \/ \E r \in Readers, h \in LockedQueries : GetIsEmpty(r, h)
    \/ \E r \in Readers : RLock(r)
    \/ \E r \in Readers : Read(r)
    \/ \E r \in Readers : RUnlock(r)
    \/ \E r \in Readers : Return(r)

SpecLocked == InitLocked /\ [][NextLocked]_vars

\* ------------------------------------------------------ ConsistentHash64
\* Positions are uint64; the block width is still taken from MaxUint32.
U64(x) == x % (2^(2 * Width))

\* New64(opts...): defaultReplicas below 1 becomes 1; blockPartitioning is
\* kept as given; with readLockFree the ring owns a second ring, stale,
\* built without block partitioning.
Table64(defaultReplicas, blockPartitioning) ==
    [replicas          |-> IF defaultReplicas < 1 THEN 1 ELSE defaultReplicas,
     hKeys             |-> << >>,
     hTable            |-> EmptyMap,
     rTable            |-> EmptyMap,
     blocks            |-> EmptyMap,
     totalBlocks       |-> 0,
     blockPartitioning |-> blockPartitioning]

New64(defaultReplicas, blockPartitioning, readLockFree) ==
    [replicas          |-> IF defaultReplicas < 1 THEN 1 ELSE defaultReplicas,
     hKeys             |-> << >>,
     hTable            |-> EmptyMap,
     rTable            |-> EmptyMap,
     blocks            |-> EmptyMap,
     totalBlocks       |-> 0,
     blockPartitioning |-> blockPartitioning,
     readLockFree      |-> readLockFree,
     lockState         |-> FALSE,
     stale             |-> Table64(defaultReplicas, 0)]

\* IsEmpty: len(ch.hKeys) == 0
IsEmpty64(r) == Len(r.hKeys) = 0

\* An operation's outcome: the ring it leaves and whether it ran to its end
\* (ok = FALSE: it stopped in a runtime panic).
Done64(r) == [r |-> r, ok |-> TRUE]
Panic64(r) == [r |-> r, ok |-> FALSE]

\* SortUints64: sort.Sort of the hashes, ascending.
RECURSIVE InsertUint64(_, _)
InsertUint64(sorted, x) ==
    IF sorted = << >> \/ ~(x < sorted[Len(sorted)])
    THEN Append(sorted, x)
    ELSE Append(InsertUint64(SubSeq(sorted, 1, Len(sorted) - 1), x),
                sorted[Len(sorted)])

RECURSIVE SortUints64(_)
SortUints64(x) ==
    IF x = << >> THEN << >>
    ELSE InsertUint64(SortUints64(SubSeq(x, 1, Len(x) - 1)), x[Len(x)])

\* buildBlocks, the loop over hKeys from index idx (0-based): the block of
\* each hash gets idx as its max, and as its min when the block is new.
RECURSIVE fillBlocks(_, _, _)
fillBlocks(r, blockSize, idx) ==
    IF idx >= Len(r.hKeys) THEN r
    ELSE LET blockNumber == r.hKeys[idx + 1] \div blockSize
             min == IF blockNumber \in DOMAIN r.blocks
                    THEN r.blocks[blockNumber][1] ELSE idx
         IN  fillBlocks([r EXCEPT !.blocks = MapPut(@, blockNumber, <<min, idx>>)],
                        blockSize, idx + 1)

\* buildBlocks(rebuild): totalBlocks = len(hKeys) / blockPartitioning, the
\* block width is MaxUint32 / totalBlocks (a division by zero panics).
buildBlocks(r, rebuild) ==
    IF r.blockPartitioning < 1 THEN Done64(r)
    ELSE LET totalBlocks == Len(r.hKeys) \div r.blockPartitioning
             r1 == [r EXCEPT !.totalBlocks = totalBlocks,
                             !.blocks = IF rebuild THEN EmptyMap ELSE @]
         IN  IF totalBlocks = 0 THEN Panic64(r1)
             ELSE IF MaxUint32 \div totalBlocks = 0 /\ Len(r.hKeys) > 0
             THEN Panic64(r1)
             ELSE Done64(fillBlocks(r1, MaxUint32 \div totalBlocks, 0))

\* add, the replicas of one key from number i on: each hash is appended to
\* hKeys and written to hTable.  The replica number follows the key as 8
\* little-endian bytes.  st.h is the hash computed last.
RECURSIVE addReplicas64(_, _, _, _)
addReplicas64(st, key, i, replicas) ==
    IF i < replicas
    THEN LET h == hash64[<<key, i, 8>>]
         IN  addReplicas64([r    |-> [st.r EXCEPT !.hKeys = Append(@, h),
                                                  !.hTable = MapPut(@, h, key)],
                            h |-> h],
                           key, i + 1, replicas)
    ELSE st

\* add, the loop over the keys from keys[idx] on (1-based).
RECURSIVE addKeys64(_, _, _, _)
addKeys64(st, replicas, keys, idx) ==
    IF idx > Len(keys) THEN st
    ELSE LET key == keys[idx]
             h == hash64[<<key, 0, 0>>]
             s1 == addReplicas64(
                       [r    |-> [st.r EXCEPT !.hKeys = Append(@, h),
                                              !.hTable = MapPut(@, h, key)],
                        h |-> h],
                       key, 1, replicas)
             s2 == IF replicas # st.r.replicas
                   THEN [s1 EXCEPT !.r.rTable = MapPut(@, s1.h, replicas)]
                   ELSE s1
         IN  addKeys64(s2, replicas, keys, idx + 1)

\* add, up to the sort: hKeys, hTable and rTable are written.
addTables64(r, replicas, keys) ==
    LET r1 == addKeys64([r |-> r, h |-> 0], replicas, keys, 1).r
    IN  [r1 EXCEPT !.hKeys = SortUints64(@)]

\* add(replicas, keys...)
add64(r, replicas, keys) == buildBlocks(addTables64(r, replicas, keys), FALSE)

\* removeHashKey: remove one occurrence of h from the sorted hKeys.
RECURSIVE SearchUint64(_, _, _, _)
SearchUint64(hKeys, h, i, j) ==
    IF i < j
    THEN LET m == (i + j) \div 2 IN
         IF hKeys[m + 1] >= h THEN SearchUint64(hKeys, h, i, m)
         ELSE SearchUint64(hKeys, h, m + 1, j)
    ELSE i

removeHashKey(r, h) ==
    LET idx == SearchUint64(r.hKeys, h, 0, Len(r.hKeys))
    IN  IF idx = Len(r.hKeys) THEN r
        ELSE IF r.hKeys[idx + 1] = h
        THEN [r EXCEPT !.hKeys = SubSeq(@, 1, idx) \o SubSeq(@, idx + 2, Len(@))]
        ELSE r

\* Remove, the loop over the replicas from number i on: the replica number
\* follows the key as 4 little-endian bytes.
RECURSIVE removeReplicas64(_, _, _, _)
removeReplicas64(r, key, i, replicas) ==
    IF i < replicas
    THEN LET h == hash64[<<key, i, 4>>]
         IN  removeReplicas64(
                 removeHashKey([r EXCEPT !.hTable = MapDelete(@, h)], h),
                 key, i + 1, replicas)
    ELSE r

\* Remove, from the read of rTable to the delete from rTable.
removeTables64(r, key) ==
    LET originalHash == hash64[<<key, 0, 0>>]
        found == originalHash \in DOMAIN r.rTable
        replicas == IF found THEN r.rTable[originalHash] ELSE r.replicas
        r1 == removeReplicas64(r, key, 1, replicas)
    IN  IF found THEN [r1 EXCEPT !.rTable = MapDelete(@, originalHash)] ELSE r1

\* Remove under the lock: the tables, then buildBlocks(true).
remove64(r, key) == buildBlocks(removeTables64(r, key), TRUE)

\* lookupFromBlock, the binary search between the block's min and max.
RECURSIVE searchBlock(_, _, _, _)
searchBlock(r, h, idx, j) ==
    IF idx < j
    THEN LET m == (idx + j) \div 2 IN
         IF m < Len(r.hKeys) /\ r.hKeys[m + 1] >= h
         THEN searchBlock(r, h, idx, m)
         ELSE searchBlock(r, h, m + 1, j)
    ELSE idx

\* lookupFromBlock, the walk from blockNumber to the first block that
\* exists; idx stays 0 when there is none below totalBlocks.
RECURSIVE walkBlocks(_, _, _)
walkBlocks(r, h, blockNumber) ==
    IF blockNumber < r.totalBlocks
    THEN IF blockNumber \notin DOMAIN r.blocks
         THEN walkBlocks(r, h, blockNumber + 1)
         ELSE searchBlock(r, h, r.blocks[blockNumber][1], r.blocks[blockNumber][2])
    ELSE 0

\* lookupFromBlock(hash): the index found; ok = FALSE for the panic of a
\* division by a zero totalBlocks or block width.
lookupFromBlock(r, h) ==
    IF r.totalBlocks = 0 THEN [idx |-> 0, ok |-> FALSE]
    ELSE IF MaxUint32 \div r.totalBlocks = 0 THEN [idx |-> 0, ok |-> FALSE]
    ELSE [idx |-> walkBlocks(r, h, h \div (MaxUint32 \div r.totalBlocks)),
          ok  |-> TRUE]

\* Get after the emptiness check and the choice of the ring to read: the
\* exact match in hTable, the first / last check, the search, the value.
read64(r, h) ==
    IF h \in DOMAIN r.hTable THEN r.hTable[h]
    ELSE IF Len(r.hKeys) = 0 THEN Panic
    ELSE LET found ==
                 IF r.hKeys[Len(r.hKeys)] < h \/ r.hKeys[1] > h
                 THEN [idx |-> 0, ok |-> TRUE]
                 ELSE IF r.blockPartitioning < 1
                 THEN [idx |-> SearchUint64(r.hKeys, h, 0, Len(r.hKeys)), ok |-> TRUE]
                 ELSE lookupFromBlock(r, h)
         IN  IF ~found.ok THEN Panic
             ELSE LET idx == IF found.idx > Len(r.hKeys) - 1 THEN 0 ELSE found.idx
                  IN  IF r.hKeys[idx + 1] \in DOMAIN r.hTable
                      THEN r.hTable[r.hKeys[idx + 1]]
                      ELSE Nil

\* Get(key) of a ring without stale, for a key with hash(key) = h.
GetTable64(r, h) == IF IsEmpty64(r) THEN Nil ELSE read64(r, h)

\* Get(key), for a key with hash(key) = h.
Get64(r, h) ==
    IF IsEmpty64(r) THEN Nil
    ELSE IF r.readLockFree /\ r.lockState THEN GetTable64(r.stale, h)
    ELSE read64(r, h)

\* GetString(key)
GetString64(r, h) ==
    LET v == Get64(r, h) IN IF v = Nil THEN "" ELSE v

\* An add that leaves stale as it is.
staleSkip(r, replicas, keys) == r

\* What a call does to stale: the same call on a ring without stale.
staleAdd(r, replicas, keys) ==
    IF r.readLockFree
    THEN [r EXCEPT !.stale = add64(@, replicas, keys).r]
    ELSE r

staleRemove(r, key) ==
    IF r.readLockFree /\ ~IsEmpty64(r.stale)
    THEN [r EXCEPT !.stale = remove64(@, key).r]
    ELSE r

\* Add(keys...): stale first, then the ring itself.
Add64(r, keys) == add64(staleAdd(r, r.replicas, keys), r.replicas, keys)

\* AddReplicas(replicas, keys...)
AddReplicas64(r, replicas, keys) ==
    IF replicas < 1 THEN Done64(r)
    ELSE add64(staleAdd(r, replicas, keys), replicas, keys)

\* Remove(key): the call returns true unless it panics.
Remove64(r, key) ==
    IF IsEmpty64(r) THEN Done64(r)
    ELSE remove64(staleRemove(r, key), key)

\* The positions HashFunc64 may return: for a value (one of them above
\* MaxUint32), for a value followed by the 8 bytes of a replica number, as
\* add writes it, and for a value followed by the 4 bytes of a replica
\* number, as Remove writes it.
Canon64Range == {20, 130, 2^Width + 44}
Replica8Range == {70, 200}
Replica4Range == {70, 90}
Hash64Funcs ==
    {c @@ r8 @@ r4 :
        c \in {f \in [{<<v, 0, 0>> : v \in Values} -> Canon64Range] :
                    f[<<"a", 0, 0>>] < f[<<"b", 0, 0>>]},
        r8 \in [{<<v, i, 8>> : v \in Values, i \in 1..(MaxReplicas - 1)}
                    -> Replica8Range],
        r4 \in [{<<v, i, 4>> : v \in Values, i \in 1..(MaxReplicas - 1)}
                    -> Replica4Range]}
\* The hashes of the keys looked up.
QueryHashes64 == {0, 50, 100, 130, 200, 2^Width + 44, 2^Width + 100}

\* ----------------------------------------- calls on one ConsistentHash64
\* ch64 is built with any replica count and divisor, and with the read
\* lock; ch64u is built with the same options but without block
\* partitioning and is given the same calls.  A call
\* that panics ends the program.
Init64 ==
    /\ hash \in LockedHashFuncs
    /\ ch = New(1, 1)
    /\ ch2 = ch
    /\ added = {}
    /\ added2 = {}
    /\ last = Call("New64", Nil)
    /\ InitGoroutines
    /\ committed = ch
    /\ hash64 \in Hash64Funcs
    /\ \E defaultReplicas \in 0..MaxReplicas, blockPartitioning \in 0..MaxDivisor :
        /\ ch64 = New64(defaultReplicas, blockPartitioning, FALSE)
        /\ ch64u = New64(defaultReplicas, 0, FALSE)
    /\ raced = {}

Unchanged64 ==
    UNCHANGED <<hash, ch, ch2, added, added2, mu, pc, call, committed, seen,
                hash64, raced>>

Ret64(out, ret) == IF out.ok THEN ret ELSE Panic

Call64Add(keys) ==
    /\ last.ret # Panic
    /\ Len(Add64(ch64, keys).r.hKeys) <= MaxKeys64
    /\ ch64' = Add64(ch64, keys).r
    /\ ch64u' = Add64(ch64u, keys).r
    /\ last' = Call("Add", Ret64(Add64(ch64, keys), Nil))
    /\ Unchanged64

Call64AddReplicas(replicas, key) ==
    /\ last.ret # Panic
    /\ Len(AddReplicas64(ch64, replicas, <<key>>).r.hKeys) <= MaxKeys64
    /\ ch64' = AddReplicas64(ch64, replicas, <<key>>).r
    /\ ch64u' = AddReplicas64(ch64u, replicas, <<key>>).r
    /\ last' = Call("AddReplicas", Ret64(AddReplicas64(ch64, replicas, <<key>>), Nil))
    /\ Unchanged64

Call64Remove(key) ==
    /\ last.ret # Panic
    /\ ch64' = Remove64(ch64, key).r
    /\ ch64u' = Remove64(ch64u, key).r
    /\ last' = Call("Remove", Ret64(Remove64(ch64, key), "true"))
    /\ Unchanged64

Call64Get(h) ==
    /\ last.ret # Panic
    /\ last' = Call("Get", Get64(ch64, h))
    /\ UNCHANGED <<ch64, ch64u>>
    /\ Unchanged64

Next64 ==
    \/ \E keys \in Batches : Call64Add(keys)
    \/ \E replicas \in 0..MaxReplicas, key \in Values : Call64AddReplicas(replicas, key)
    \/ \E key \in Values : Call64Remove(key)
    \/ \E h \in QueryHashes64 : Call64Get(h)

Spec64 == Init64 /\ [][Next64]_vars

\* -------------------------- goroutines on one lock-free ConsistentHash64
\* One goroutine writes and one reads a ring built with WithReadLockFree.
\* A call is cut at every access to what the two goroutines share: the
\* write to stale, lock(), the store to lockState, the writes to the ring
\* (add: the appends, the sort, buildBlocks), unlock(), the store to
\* lockState; the read of len(hKeys), the load of lockState, the read of
\* the ring or of stale.
Writers64 == {"w1"}

\* One choice of positions: Remove's 4-byte replica hash of "a" falls on the
\* position add gave its replica, that of "b" does not.
LockFreeHashFuncs ==
    {f \in Hash64Funcs :
        /\ f[<<"a", 0, 0>>] = 20 /\ f[<<"b", 0, 0>>] = 130
        /\ \A i \in 1..(MaxReplicas - 1) :
            /\ f[<<"a", i, 8>>] = 70 /\ f[<<"a", i, 4>>] = 70
            /\ f[<<"b", i, 8>>] = 200 /\ f[<<"b", i, 4>>] = 90}

\* The hashes the reader asks for: one between two positions, one stored.
LockFreeQueries == {100, 130}

InitLockFree ==
    /\ hash \in LockedHashFuncs
    /\ ch = New(1, 1)
    /\ ch2 = ch
    /\ added = {}
    /\ added2 = {}
    /\ last = Call("New64", Nil)
    /\ InitGoroutines
    /\ committed = ch
    /\ hash64 \in LockFreeHashFuncs
    /\ \E defaultReplicas \in 1..MaxReplicas, blockPartitioning \in 0..MaxDivisor :
        ch64 = New64(defaultReplicas, blockPartitioning, TRUE)
    /\ ch64u = ch64
    /\ raced = {}

UnchangedLockFree ==
    UNCHANGED <<hash, ch, ch2, added, added2, mu, committed, seen, hash64, ch64u>>

\* The writer is in the middle of its writes to hKeys, hTable, rTable,
\* blocks or totalBlocks: hKeys is appended to and not yet sorted, or the
\* blocks are not yet rebuilt.
Mutating64 ==
    \E w \in Writers64 :
        \/ pc[w] = "sort"
        \/ pc[w] = "build" /\ ch64.blockPartitioning > 0

\* Add(key): no shared access before the write to stale.
Start64Add(w, key) ==
    /\ last.ret # Panic
    /\ pc[w] = "idle"
    /\ Len(ch64.hKeys) + ch64.replicas <= MaxKeys64
    /\ pc' = [pc EXCEPT ![w] = "stale"]
    /\ call' = [call EXCEPT ![w] = Frame("Add", key, ch64.replicas, 0)]
    /\ UNCHANGED <<last, ch64, raced>>
    /\ UnchangedLockFree

\* AddReplicas(replicas, key): returns at once when replicas < 1.
Start64AddReplicas(w, replicas, key) ==
    /\ last.ret # Panic
    /\ pc[w] = "idle"
    /\ Len(ch64.hKeys) + replicas <= MaxKeys64
    /\ pc' = [pc EXCEPT ![w] = IF replicas < 1 THEN "idle" ELSE "stale"]
    /\ call' = [call EXCEPT ![w] = IF replicas < 1 THEN NoCall
                                  ELSE Frame("AddReplicas", key, replicas, 0)]
    /\ last' = IF replicas < 1 THEN Call("AddReplicas", Nil) ELSE last
    /\ UNCHANGED <<ch64, raced>>
    /\ UnchangedLockFree

\* Remove(key): returns true at once when the ring is empty.
Start64Remove(w, key) ==
    /\ last.ret # Panic
    /\ pc[w] = "idle"
    /\ pc' = [pc EXCEPT ![w] = IF IsEmpty64(ch64) THEN "idle" ELSE "stale"]
    /\ call' = [call EXCEPT ![w] = IF IsEmpty64(ch64) THEN NoCall
                                  ELSE Frame("Remove", key, 0, 0)]
    /\ last' = IF IsEmpty64(ch64) THEN Call("Remove", "true") ELSE last
    /\ UNCHANGED <<ch64, raced>>
    /\ UnchangedLockFree

\* A write call that goes straight to lock() and leaves stale as it is.
StaleWriteSkipped(w) ==
    /\ pc[w] = "stale"
    /\ pc' = [pc EXCEPT ![w] = "lock"]
    /\ UNCHANGED <<last, call, ch64, raced>>
    /\ UnchangedLockFree

\* ch.stale.Add / ch.stale.AddReplicas / ch.stale.Remove, under stale's
\* own lock.
StaleWrite(w) ==
    /\ pc[w] = "stale"
    /\ ch64' = IF call[w].op = "Remove" THEN staleRemove(ch64, call[w].key)
               ELSE staleAdd(ch64, call[w].replicas, <<call[w].key>>)
    /\ pc' = [pc EXCEPT ![w] = "lock"]
    /\ UNCHANGED <<last, call, raced>>
    /\ UnchangedLockFree

\* lock(): ch.mu.Lock()
Lock64(w) ==
    /\ pc[w] = "lock"
    /\ mu = NoLock
    /\ mu' = [mu EXCEPT !.writer = w]
    /\ pc' = [pc EXCEPT ![w] = "store"]
    /\ UNCHANGED <<hash, ch, ch2, added, added2, last, call, committed, seen>>
    /\ UNCHANGED <<hash64, ch64, ch64u, raced>>

\* lock(): ch.lockState.Store(true)
StoreTrue(w) ==
    /\ pc[w] = "store"
    /\ ch64' = [ch64 EXCEPT !.lockState = TRUE]
    /\ pc' = [pc EXCEPT ![w] = IF call[w].op = "Remove" THEN "remove" ELSE "append"]
    /\ UNCHANGED <<last, call, raced>>
    /\ UnchangedLockFree

\* add, the loop over the keys: hKeys is appended to, hTable and rTable
\* are written.
AppendKeys(w) ==
    /\ pc[w] = "append"
    /\ ch64' = addKeys64([r |-> ch64, h |-> 0], call[w].replicas,
                         <<call[w].key>>, 1).r
    /\ pc' = [pc EXCEPT ![w] = "sort"]
    /\ UNCHANGED <<last, call, raced>>
    /\ UnchangedLockFree

\* add: SortUints64(ch.hKeys)
SortKeys(w) ==
    /\ pc[w] = "sort"
    /\ ch64' = [ch64 EXCEPT !.hKeys = SortUints64(@)]
    /\ pc' = [pc EXCEPT ![w] = "build"]
    /\ UNCHANGED <<last, call, raced>>
    /\ UnchangedLockFree

\* Remove: the replicas loop and the delete from rTable.
RemoveTables(w) ==
    /\ pc[w] = "remove"
    /\ ch64' = removeTables64(ch64, call[w].key)
    /\ pc' = [pc EXCEPT ![w] = "build"]
    /\ UNCHANGED <<last, call, raced>>
    /\ UnchangedLockFree

\* buildBlocks(false) of add, buildBlocks(true) of Remove; a panic unwinds
\* to the deferred unlock().
BuildBlocks(w) ==
    /\ pc[w] = "build"
    /\ LET out == buildBlocks(ch64, call[w].op = "Remove")
       IN  /\ ch64' = out.r
           /\ call' = [call EXCEPT ![w].ret =
                          IF ~out.ok THEN Panic
                          ELSE IF call[w].op = "Remove" THEN "true" ELSE Nil]
    /\ pc' = [pc EXCEPT ![w] = "unlock"]
    /\ UNCHANGED <<last, raced>>
    /\ UnchangedLockFree

\* unlock(): ch.mu.Unlock()
Unlock64(w) ==
    /\ pc[w] = "unlock"
    /\ mu' = NoLock
    /\ pc' = [pc EXCEPT ![w] = "clear"]
    /\ UNCHANGED <<hash, ch, ch2, added, added2, last, call, committed, seen>>
    /\ UNCHANGED <<hash64, ch64, ch64u, raced>>

\* unlock(): ch.lockState.Store(false); the call returns, or its panic
\* ends the program.
StoreFalse(w) ==
    /\ pc[w] = "clear"
    /\ ch64' = [ch64 EXCEPT !.lockState = FALSE]
    /\ pc' = [pc EXCEPT ![w] = "idle"]
    /\ last' = Call(call[w].op, call[w].ret)
    /\ call' = [call EXCEPT ![w] = NoCall]
    /\ UNCHANGED raced
    /\ UnchangedLockFree

\* Get(key): ch.IsEmpty() reads len(ch.hKeys) of the ring itself, with no
\* lock and before lockState is looked at.
Get64IsEmpty(r, h) ==
    /\ last.ret # Panic
    /\ pc[r] = "idle"
    /\ pc' = [pc EXCEPT ![r] = IF IsEmpty64(ch64) THEN "done" ELSE "load"]
    /\ call' = [call EXCEPT ![r] = Frame("Get", Nil, 0, h)]
    /\ raced' = IF Mutating64 THEN raced \cup {"hKeys"} ELSE raced
    /\ UNCHANGED <<last, ch64>>
    /\ UnchangedLockFree

\* Get: if ch.lockState.Load() the call is served by ch.stale.Get, else it
\* goes on to read the ring itself.
LoadLockState(r) ==
    /\ pc[r] = "load"
    /\ pc' = [pc EXCEPT ![r] = IF ch64.lockState THEN "staleEmpty" ELSE "primary"]
    /\ UNCHANGED <<last, call, ch64, raced>>
    /\ UnchangedLockFree

\* Get: the exact match in hTable and the search in hKeys / blocks of the
\* ring itself, with no lock.  Read during a write, it is a data race:
\* the call may return any node, nil, or fail.
ReadPrimary(r) ==
    /\ pc[r] = "primary"
    /\ IF Mutating64
       THEN /\ \E v \in Values \cup {Nil, Panic} :
                call' = [call EXCEPT ![r].ret = v]
            /\ raced' = raced \cup {"hKeys", "hTable", "blocks"}
       ELSE /\ call' = [call EXCEPT ![r].ret = read64(ch64, call[r].h)]
            /\ raced' = raced
    /\ pc' = [pc EXCEPT ![r] = "done"]
    /\ UNCHANGED <<last, ch64>>
    /\ UnchangedLockFree

\* ch.stale.Get: IsEmpty of stale.
StaleIsEmpty(r) ==
    /\ pc[r] = "staleEmpty"
    /\ pc' = [pc EXCEPT ![r] = IF IsEmpty64(ch64.stale) THEN "done" ELSE "staleRead"]
    /\ UNCHANGED <<last, call, ch64, raced>>
    /\ UnchangedLockFree

\* ch.stale.Get: the read of stale under stale's read lock.
StaleRead(r) ==
    /\ pc[r] = "staleRead"
    /\ call' = [call EXCEPT ![r].ret = read64(ch64.stale, call[r].h)]
    /\ pc' = [pc EXCEPT ![r] = "done"]
    /\ UNCHANGED <<last, ch64, raced>>
    /\ UnchangedLockFree

\* Get returns call[r].ret, or its panic ends the program.
Return64(r) ==
    /\ pc[r] = "done"
    /\ pc' = [pc EXCEPT ![r] = "idle"]
    /\ last' = IF call[r].ret = Panic THEN Call("Get", Panic) ELSE last
    /\ call' = [call EXCEPT ![r] = NoCall]
    /\ raced' = {}
    /\ UNCHANGED ch64
    /\ UnchangedLockFree

NextLockFree ==
    \/ \E w \in Writers64, key \in Values : Start64Add(w, key)
    \/ \E w \in Writers64, replicas \in 0..MaxReplicas, key \in Values :
        Start64AddReplicas(w, replicas, key)
    \/ \E w \in Writers64, key \in Values : Start64Remove(w, key)
    \/ \E w \in Writers64 : StaleWrite(w)
    \/ \E w \in Writers64 : Lock64(w)
    \/ \E w \in Writers64 : StoreTrue(w)
    \/ \E w \in Writers64 : AppendKeys(w)
    \/ \E w \in Writers64 : SortKeys(w)
    \/ \E w \in Writers64 : RemoveTables(w)
    \/ \E w \in Writers64 : BuildBlocks(w)
    \/ \E w \in Writers64 : Unlock64(w)
    \/ \E w \in Writers64 : StoreFalse(w)
    \/ \E r \in Readers, h \in LockFreeQueries : Get64IsEmpty(r, h)
    \/ \E r \in Readers : LoadLockState(r)
    \/ \E r \in Readers : ReadPrimary(r)
    \/ \E r \in Readers : StaleIsEmpty(r)
    \/ \E r \in Readers : StaleRead(r)
    \/ \E r \in Readers : Return64(r)

SpecLockFree == InitLockFree /\ [][NextLockFree]_vars

\* ------------------------------------------------ both rings, one caller
\* One caller makes the same Add, AddReplicas and Remove calls on a 32-bit
\* ring and on a ConsistentHash64 (with or without WithReadLockFree); call
\* holds the arguments of the last call.
Caller == CHOOSE w \in Writers : TRUE

InitBoth ==
    /\ hash \in LockedHashFuncs
    /\ hash64 \in LockFreeHashFuncs
    /\ \E defaultReplicas \in 0..MaxReplicas, divisor \in 0..MaxDivisor,
          readLockFree \in BOOLEAN :
        /\ ch = New(defaultReplicas, divisor)
        /\ ch64 = New64(defaultReplicas, divisor, readLockFree)
    /\ ch2 = ch
    /\ ch64u = ch64
    /\ committed = ch
    /\ added = {}
    /\ added2 = {}
    /\ last = Call("New", Nil)
    /\ InitGoroutines
    /\ raced = {}

UnchangedBoth ==
    UNCHANGED <<hash, ch2, added2, mu, pc, committed, seen, hash64, ch64u, raced>>

BothRingsAdd(key) ==
    /\ last.ret # Panic
    /\ ch' = Reclaim(Add(ch, <<key>>))
    /\ ch'.totalKeys <= MaxKeys
    /\ ch64' = Add64(ch64, <<key>>).r
    /\ Len(ch64'.hKeys) <= MaxKeys64
    /\ added' = added \cup {key}
    /\ call' = [call EXCEPT ![Caller] = Frame("Add", key, ch.replicas, 0)]
    /\ last' = Call("Add", Ret64(Add64(ch64, <<key>>), Nil))
    /\ UnchangedBoth

BothRingsAddReplicas(replicas, key) ==
    /\ last.ret # Panic
    /\ ch' = Reclaim(AddReplicas(ch, replicas, <<key>>))
    /\ ch'.totalKeys <= MaxKeys
    /\ ch64' = AddReplicas64(ch64, replicas, <<key>>).r
    /\ Len(ch64'.hKeys) <= MaxKeys64
    /\ added' = IF replicas < 1 THEN added ELSE added \cup {key}
    /\ call' = [call EXCEPT ![Caller] = Frame("AddReplicas", key, replicas, 0)]
    /\ last' = Call("AddReplicas", Ret64(AddReplicas64(ch64, replicas, <<key>>), Nil))
    /\ UnchangedBoth

BothRingsRemove(key) ==
    /\ last.ret # Panic
    /\ ch' = Reclaim(Remove(ch, key))
    /\ ch64' = Remove64(ch64, key).r
    /\ added' = added \ {key}
    /\ call' = [call EXCEPT ![Caller] = Frame("Remove", key, 0, 0)]
    /\ last' = Call("Remove", Ret64(Remove64(ch64, key), "true"))
    /\ UnchangedBoth

NextBoth ==
    \/ \E key \in Values : BothRingsAdd(key)
    \/ \E replicas \in 0..MaxReplicas, key \in Values : BothRingsAddReplicas(replicas, key)
    \/ \E key \in Values : BothRingsRemove(key)

SpecBoth == InitBoth /\ [][NextBoth]_vars

\* ------------------------------------------------- a ring of five values
\* A 32-bit ring with the default replica count 1 that receives single
\* values: three of them land in one block while totalBlocks is 1, two more
\* land in the block the first is moved to when totalBlocks grows, and the
\* sixth lands in the last of four blocks.
BlockValues == {"a", "b", "c", "d", "e", "f"}
BlockHash ==
    [x \in BlockValues \X {0} |->
        CASE x[1] = "a" -> 70
          [] x[1] = "b" -> 130
          [] x[1] = "c" -> 150
          [] x[1] = "d" -> 80
          [] x[1] = "e" -> 90
          [] x[1] = "f" -> 200]

InitBlocks ==
    /\ hash = BlockHash
    /\ \E divisor \in 0..MaxDivisor : ch = New(1, divisor)
    /\ ch2 = ch
    /\ added = {}
    /\ added2 = {}
    /\ last = Call("New", Nil)
    /\ InitOthers

BlocksAdd(key) ==
    /\ ch' = Reclaim(Add(ch, <<key>>))
    /\ ch'.totalKeys <= MaxBlockKeys
    /\ added' = added \cup {key}
    /\ last' = Call("Add", Nil)
    /\ UNCHANGED <<hash, ch2, added2>>
    /\ UNCHANGED others

BlocksRemove(key) ==
    /\ ch' = Reclaim(Remove(ch, key))
    /\ added' = added \ {key}
    /\ last' = Call("Remove", "true")
    /\ UNCHANGED <<hash, ch2, added2>>
    /\ UNCHANGED others

NextBlocks ==
    \/ \E key \in BlockValues : BlocksAdd(key)
    \/ \E key \in BlockValues : BlocksRemove(key)

SpecBlocks == InitBlocks /\ [][NextBlocks]_vars

\* ------------------------------------------------------------ reference
\* The position entries held in the blocks, and the entries an unpartitioned
\* search of the sorted list of all of them finds for the hash h: those with
\* the smallest position >= h, or with the smallest position of all when no
\* position is >= h.
StoredNodes(r) == UNION {Range(BlockNodes(r, b)) : b \in DOMAIN r.blocks}
Successors(r, h) ==
    LET all == StoredNodes(r)
        ge == {n \in all : n.key >= h}
    IN  IF ge # {}
        THEN {n \in ge : \A m \in ge : n.key <= m.key}
        ELSE {n \in all : \A m \in all : n.key <= m.key}
\* The values an unpartitioned search returns for h.
LinearGet(r, h) == {TableBytes(r, n.pointer) : n \in Successors(r, h)}

\* ------------------------------------------------------------ claims
\* C1: whenever a position is stored, Get(k) is the node owning the smallest
\* stored position >= hash(k), or the smallest stored position when there is
\* none: what an unpartitioned search of all stored positions returns.
C1_GetIsLinearSearch ==
    \A h \in QueryHashes :
        StoredNodes(ch) # {} => Get(ch, h) \in LinearGet(ch, h)

\* The entries of every block, by block number.
Entries(r) == [b \in DOMAIN r.blocks |-> BlockNodes(r, b)]

\* C2: after Add(X) or AddReplicas(R, X), Get(k) is what it was before the
\* call or X, for every key k.
C2_AddRemapsOnlyToNew ==
    \A X \in Values, R \in 1..MaxReplicas, h \in QueryHashes :
        Get(Reclaim(AddReplicas(ch, R, <<X>>)), h) \in {Get(ch, h), X}

\* C3: after Remove(X), every key that was mapped to a node other than X is
\* still mapped to that node.
C3_RemoveKeepsOthers ==
    \A X \in Values, h \in QueryHashes :
        Get(ch, h) \in Values \ {X}
            => Get(Reclaim(Remove(ch, X)), h) = Get(ch, h)

\* C4: when X is not stored, Add(X) followed by Remove(X) gives a ring on
\* which Get(k) is what it was, for every key k.
C4_AddRemoveInverse ==
    \A X \in Values \ added, h \in QueryHashes :
        Get(Reclaim(Remove(Reclaim(Add(ch, <<X>>)), X)), h) = Get(ch, h)

\* C5: on a ring that stores a position, a key whose hash is greater than
\* every stored position gets the node owning the smallest stored position.
C5_Wraparound ==
    \A h \in QueryHashes :
        (StoredNodes(ch) # {} /\ \A n \in StoredNodes(ch) : n.key < h)
            => Get(ch, h) \in LinearGet(ch, h)

\* C6: after AddReplicas(R, X) followed by Remove(X), no block holds an entry
\* owned by X, hTable does not hold X, and no Get returns X.
C6_RemoveUndoesAddReplicas ==
    \A X \in Values, R \in 1..MaxReplicas :
        LET r == Reclaim(Remove(Reclaim(AddReplicas(ch, R, <<X>>)), X))
        IN  /\ \A n \in StoredNodes(r) : n.pointer # hash[<<X, 0>>]
            /\ \A p \in DOMAIN r.hTable : r.hTable[p] # X
            /\ \A h \in QueryHashes : Get(r, h) # X

\* C7: Remove(X) for a value X that is not stored leaves hTable, rTable, the
\* entries of every block, totalKeys and totalBlocks unchanged.
C7_RemoveAbsentIsNoOp ==
    \A X \in Values \ added :
        LET r == Reclaim(Remove(ch, X))
        IN  /\ r.hTable = ch.hTable
            /\ r.rTable = ch.rTable
            /\ Entries(r) = Entries(ch)
            /\ r.totalKeys = ch.totalKeys
            /\ r.totalBlocks = ch.totalBlocks

\* C8: two rings with the same hash function, default replica count and
\* divisor that were fed the same Add calls, in whatever orders, return the
\* same Get(k) for every key k.
C8_AddOrderIndependent ==
    added = added2 => \A h \in QueryHashes : Get(ch, h) = Get(ch2, h)

\* C9: after every call, two rings that differ only in blockPartitioning and
\* were fed the same calls return the same Get(k) for every key k.
C9_DivisorIndependent ==
    \A h \in QueryHashes : Get(ch, h) = Get(ch2, h)

\* C10: Get(X) is X for every stored value X whose canonical position no
\* other stored value shares.
C10_GetOfStoredValue ==
    \A X \in added :
        (\A Y \in added \ {X} : hash[<<Y, 0>>] # hash[<<X, 0>>])
            => Get(ch, hash[<<X, 0>>]) = X

\* C11: when a value X stored with R replicas is given R2 > R replicas by
\* AddReplicas(R2, X), every key that Get mapped to X before the call is
\* still mapped to X after it.
C11_MoreReplicasKeepKeys ==
    \A X \in Values \ added, R \in 1..MaxReplicas, R2 \in 1..MaxReplicas :
        R2 > R =>
            LET r == Reclaim(AddReplicas(ch, R, <<X>>))
            IN  \A h \in QueryHashes :
                    Get(r, h) = X
                        => Get(Reclaim(AddReplicas(r, R2, <<X>>)), h) = X

\* C12: on the locked 32-bit ring no two of Add, AddReplicas and Remove are
\* inside their mutation at the same time, no Get makes its hTable check or
\* its block lookup while a mutation is in progress, and what a Get returns
\* is what Get gives in a state before or after a write it overlapped.
C12_LockedMode ==
    /\ Cardinality({w \in Writers : pc[w] \in Mutating}) <= 1
    /\ \A r \in Readers :
        /\ pc[r] = "read" => \A w \in Writers : pc[w] \notin Mutating
        /\ pc[r] \in {"runlock", "done"} => call[r].ret \in seen

\* A Get that overlapped a write which changed its answer has read a value.
C12_Witness ==
    \E r \in Readers :
        /\ pc[r] = "runlock"
        /\ call[r].ret \in Values
        /\ Cardinality(seen) > 1

\* The positions add derives for value X stored with replicas positions.
Positions64(X, replicas) ==
    {hash64[<<X, 0, 0>>]} \cup {hash64[<<X, i, 8>>] : i \in 1..(replicas - 1)}

\* C15: in ConsistentHash64, after Add(X) or AddReplicas(R, X) followed by
\* Remove(X), the canonical position of X and every replica position the add
\* inserted are in neither hKeys nor hTable, and no Get returns X.
C15_RemoveUndoesAdd64 ==
    \A X \in Values, R \in 1..MaxReplicas :
        LET a == IF R = ch64.replicas THEN Add64(ch64, <<X>>)
                 ELSE AddReplicas64(ch64, R, <<X>>)
            r == Remove64(a.r, X)
        IN  (/\ Positions64(X, R) \cap Range(ch64.hKeys) = {}
             /\ a.ok
             /\ r.ok)
            => /\ Positions64(X, R) \cap Range(r.r.hKeys) = {}
               /\ Positions64(X, R) \cap DOMAIN r.r.hTable = {}
               /\ \A h \in QueryHashes64 : Get64(r.r, h) # X

\* C16: a ConsistentHash64 built with WithBlockPartitioning(D), D > 0,
\* returns for every key the same Get as a ring built without block
\* partitioning that received the same calls.
C16_PartitionedGet64 ==
    (ch64.blockPartitioning > 0 /\ last.ret # Panic)
        => \A h \in QueryHashes64 : Get64(ch64, h) = Get64(ch64u, h)

\* C17: in a ConsistentHash64 built with WithBlockPartitioning(D), D > 0,
\* every Add, AddReplicas, Remove and Get completes without failure, for
\* every number of stored positions.
C17_NoFailure64 ==
    ch64.blockPartitioning > 0 => last.ret # Panic

\* C13: in a lock-free ConsistentHash64 with a single writer, no Get reads
\* hKeys, hTable or blocks of the ring itself while an Add, AddReplicas or
\* Remove is mutating them.
C13_NoReadDuringWrite == raced = {}

\* C14: in a lock-free ConsistentHash64 with a single writer, whenever no
\* write call is in progress, hKeys, hTable and rTable of stale equal those
\* of the ring itself.
C14_SnapshotMirrors ==
    (\A w \in Writers64 : pc[w] = "idle")
        => /\ ch64.stale.hKeys = ch64.hKeys
           /\ ch64.stale.hTable = ch64.hTable
           /\ ch64.stale.rTable = ch64.rTable

\* A Remove has returned on a ring that holds positions and replica counts.
C14_Witness ==
    /\ \A w \in Writers64 : pc[w] = "idle"
    /\ last = Call("Remove", "true")
    /\ Len(ch64.hKeys) > 1
    /\ DOMAIN ch64.rTable # {}

\* C18: in the 32-bit ring built with the divisor unset or 0 (New then makes
\* blockPartitioning 1), totalBlocks stays 1 after any sequence of Add,
\* AddReplicas and Remove calls.
C18_UnsetDivisorOneBlock ==
    ch.blockPartitioning = New(1, 0).blockPartitioning => ch.totalBlocks = 1

\* C19: Remove returns true for every argument and every ring state: on an
\* empty ring, for a value never added, and for a value added with any
\* replica count (here for ConsistentHash64).
C19_RemoveReturnsTrue ==
    \A X \in Values :
        last.ret # Panic => Ret64(Remove64(ch64, X), "true") = "true"

\* GetString(key), for a key with hash(key) = h: "" when Get returns nil.
GetString(r, h) ==
    LET v == Get(r, h) IN IF v = Nil THEN "" ELSE v

\* C20: on a 32-bit ring that holds no position, freshly created or after
\* every added node has been removed, Get returns nil and GetString returns
\* the empty string for every key, as a value and not as a failure.
C20_EmptyRingGet ==
    (StoredNodes(ch) = {} /\ added = {})
        => \A h \in QueryHashes : Get(ch, h) = Nil /\ GetString(ch, h) = ""

\* C21: AddReplicas(R, values) with R < 1 is a no-op: a call with R < 1
\* leaves the 32-bit ring (hTable, rTable, blocks, totalKeys, totalBlocks)
\* and the ConsistentHash64 (its tables and, with WithReadLockFree, stale)
\* as they were.
C21_AddReplicasNoOp ==
    [][(call'[Caller].op = "AddReplicas" /\ call'[Caller].replicas < 1)
          => (ch' = ch /\ ch64' = ch64)]_vars

\* AddReplicas(0, X) has returned on rings that hold positions and replica
\* counts, the ConsistentHash64 with a snapshot that holds positions too.
C21_Witness ==
    /\ call[Caller].op = "AddReplicas"
    /\ call[Caller].replicas < 1
    /\ ~IsEmpty(ch)
    /\ DOMAIN ch.rTable # {}
    /\ ch64.readLockFree
    /\ ~IsEmpty64(ch64.stale)
    /\ DOMAIN ch64.rTable # {}

\* How many blocks hold the entry n, and the entries with their counts.
RECURSIVE CountIn(_, _)
CountIn(nodes, n) ==
    IF nodes = << >> THEN 0
    ELSE (IF Head(nodes) = n THEN 1 ELSE 0) + CountIn(Tail(nodes), n)
RECURSIVE CountAll(_, _, _)
CountAll(r, bs, n) ==
    IF bs = {} THEN 0
    ELSE LET b == CHOOSE x \in bs : TRUE
         IN  CountIn(BlockNodes(r, b), n) + CountAll(r, bs \ {b}, n)
EntryBag(r) == [n \in StoredNodes(r) |-> CountAll(r, DOMAIN r.blocks, n)]

\* The numbers of nodes one Add or AddReplicas call can hand to addNodes.
NewEntries(r) ==
    {Len(keys) * r.replicas : keys \in Batches} \cup (1..MaxReplicas)

\* The argument addNodes passes to balanceBlocks for n new nodes.
ExpectedBlocks(r, n) == U32(r.totalKeys + n) \div r.blockPartitioning

\* C22: a balanceBlocks call that changes totalBlocks preserves the multiset
\* of position entries: every (position, owner) entry held in some block
\* before the call is held in exactly one block after it, none is dropped,
\* duplicated or given another owner.
C22_BalanceKeepsEntries ==
    \A n \in NewEntries(ch) :
        LET after == balanceBlocks(ch, ExpectedBlocks(ch, n))
        IN  after.totalBlocks # ch.totalBlocks => EntryBag(after) = EntryBag(ch)

\* The block a position maps to: position / (MAX / totalBlocks).
BlockOf(r, position) == position \div (MaxUint32 \div r.totalBlocks)

\* C23: in every reachable state every entry stored in blocks[b] has
\* position / (MAX / totalBlocks) = b for the current totalBlocks: each entry
\* sits in the block its position maps to, also after totalBlocks has grown.
C23_EntriesInOwnBlock ==
    \A b \in DOMAIN ch.blocks :
        \A n \in Range(BlockNodes(ch, b)) : BlockOf(ch, n.key) = b

\* The positions of the entries of block b, in slice order.
BlockKeys(r, b) == [i \in 1..Len(BlockNodes(r, b)) |-> BlockNodes(r, b)[i].key]

\* C24: in every reachable state the entries of each block are strictly
\* ascending by position, and for two non-empty blocks b < c the largest
\* position in block b is smaller than the smallest position in block c.
C24_BlocksSorted ==
    /\ \A b \in DOMAIN ch.blocks :
        \A i, j \in 1..Len(BlockKeys(ch, b)) :
            i < j => BlockKeys(ch, b)[i] < BlockKeys(ch, b)[j]
    /\ \A b, c \in DOMAIN ch.blocks :
        (b < c /\ BlockKeys(ch, b) # << >> /\ BlockKeys(ch, c) # << >>)
            => Max(Range(BlockKeys(ch, b))) < Min(Range(BlockKeys(ch, c)))

\* C25: for every position p in [0, MAX] and every reachable totalBlocks the
\* block number p / (MAX / totalBlocks) is less than totalBlocks, so every
\* stored entry lies in one of the blocks 0..totalBlocks-1 that lookup
\* visits.
C25_BlockNumberInRange ==
    /\ \A p \in 0..MaxUint32 : BlockOf(ch, p) < ch.totalBlocks
    /\ \A b \in DOMAIN ch.blocks : BlockNodes(ch, b) # << >> => b < ch.totalBlocks

\* C26: an Add or AddReplicas call sets totalBlocks to expectedBlocks =
\* (totalKeys + number of new entries) / divisor if and only if
\* expectedBlocks >= 2 * totalBlocks; in every other case the call leaves
\* totalBlocks unchanged.
C26_GrowthRule ==
    LET Claimed(n) == IF ExpectedBlocks(ch, n) >= 2 * ch.totalBlocks
                      THEN ExpectedBlocks(ch, n)
                      ELSE ch.totalBlocks
    IN  /\ \A keys \in Batches :
            Add(ch, keys).totalBlocks = Claimed(Len(keys) * ch.replicas)
        /\ \A replicas \in 1..MaxReplicas, key \in Values :
            AddReplicas(ch, replicas, <<key>>).totalBlocks = Claimed(replicas)

\* C27: no operation ever decreases totalBlocks: over any sequence of Add,
\* AddReplicas and Remove calls totalBlocks is non-decreasing, and Remove
\* leaves it unchanged however many entries it removes.
C27_BlocksNeverShrink ==
    [][/\ ch'.totalBlocks >= ch.totalBlocks
       /\ last'.op = "Remove" => ch'.totalBlocks = ch.totalBlocks]_vars

\* A Remove has taken the last entry from a ring that had grown to several
\* blocks.
C27_Witness ==
    /\ last = Call("Remove", "true")
    /\ ch.totalBlocks > 1
    /\ StoredNodes(ch) = {}
    /\ added = {}

\* C28: in every reachable state every key of rTable is the canonical
\* position H(X) of a value X currently in hTable and its value is the
\* replica count X was last added with; an entry exists exactly for the
\* stored values whose replica count differs from the default, and Remove(X)
\* deletes X's entry.
C28_ReplicaTable ==
    /\ \A k \in DOMAIN ch.rTable :
        k \in DOMAIN ch.hTable /\ ch.rTable[k] # ch.replicas
    /\ \A X \in Values, R \in 1..MaxReplicas :
        LET after == AddReplicas(ch, R, <<X>>)
            H == hash[<<X, 0>>]
        IN  IF R # ch.replicas
            THEN H \in DOMAIN after.rTable /\ after.rTable[H] = R
            ELSE H \notin DOMAIN after.rTable
    /\ \A X \in Values : hash[<<X, 0>>] \notin DOMAIN Remove(ch, X).rTable

\* C29: in every reachable state the owner (pointer) of every position entry
\* stored in a block is a key of hTable, and every key of hTable has its
\* canonical position entry stored in some block: no dangling owner
\* references and no values without positions.
C29_OwnersAndValues ==
    /\ \A n \in StoredNodes(ch) : n.pointer \in DOMAIN ch.hTable
    /\ \A k \in DOMAIN ch.hTable : node(k, k) \in StoredNodes(ch)

\* C30: in every reachable state totalKeys equals the total number of
\* entries held in all blocks, so IsEmpty returns true exactly when no
\* position entry is stored.
C30_TotalKeysCountsEntries ==
    LET RECURSIVE Total(_)
        Total(bs) == IF bs = {} THEN 0
                     ELSE LET b == CHOOSE x \in bs : TRUE
                          IN  Len(BlockNodes(ch, b)) + Total(bs \ {b})
    IN  /\ ch.totalKeys = Total(DOMAIN ch.blocks)
        /\ IsEmpty(ch) <=> StoredNodes(ch) = {}

\* C31: inserting an entry whose position equals an already stored position
\* is ignored (the stored entry keeps its owner, totalKeys is not
\* incremented); consequently adding a value that is already stored with the
\* same replica count leaves the entries held in the blocks and totalKeys
\* unchanged.
C31_AddIdempotent ==
    /\ \A n \in StoredNodes(ch), p \in DOMAIN ch.hTable :
        /\ EntryBag(addNode(ch, node(n.key, p))) = EntryBag(ch)
        /\ addNode(ch, node(n.key, p)).totalKeys = ch.totalKeys
    /\ \A X \in Values, R \in 1..MaxReplicas :
        LET once == AddReplicas(ch, R, <<X>>)
            twice == AddReplicas(once, R, <<X>>)
        IN  /\ EntryBag(twice) = EntryBag(once)
            /\ twice.totalKeys = once.totalKeys

\* C32: in every reachable state in which at least one node is stored,
\* Get(k) completes for every key k without a runtime failure (no index out
\* of range into a block) and returns the bytes of some currently stored
\* node, never absent.
C32_GetReturnsStoredNode ==
    StoredNodes(ch) # {}
        => \A h \in QueryHashes :
            /\ Get(ch, h) # Panic
            /\ Get(ch, h) # Nil
            /\ Get(ch, h) \in {TableBytes(ch, n.pointer) : n \in StoredNodes(ch)}

\* The walk of lookup(h) on the ring, and how often it goes back from a
\* block to a lower-numbered one.
Walk(h) == lookupWalk(ch, h, BlockOf(ch, h), FALSE, << >>)
Wraps(visits) == Cardinality({i \in 1..(Len(visits) - 1) : visits[i + 1] <= visits[i]})

C34_NoAccessOutsideLock ==
    [][\A p \in Procs :
          (/\ pc[p] = "idle"
           /\ pc'[p] # "idle"
           /\ call'[p].op \in {"Get", "Remove"})
              => \A w \in Writers \ {p} : pc[w] \notin Mutating]_vars

\* The ring itself as it will be when the write call of w has run to its
\* end: the whole call while the ring is not yet written, else the steps
\* that are left.
Written(w) ==
    IF pc[w] \in {"lock", "store", "append", "remove"}
    THEN IF call[w].op = "Remove"
         THEN remove64(ch64, call[w].key).r
         ELSE add64(ch64, call[w].replicas, <<call[w].key>>).r
    ELSE IF pc[w] = "sort"
    THEN buildBlocks([ch64 EXCEPT !.hKeys = SortUints64(@)], FALSE).r
    ELSE IF pc[w] = "build"
    THEN buildBlocks(ch64, call[w].op = "Remove").r
    ELSE ch64

\* C35: in lock-free mode, for each Add, AddReplicas or Remove call the write
\* to the snapshot is complete before the lock of the ring itself is
\* acquired and before the ring itself is written: from then until the call
\* returns stale holds what the ring will hold after the call; hence a Get
\* served by stale during a write sees that write applied.
C35_SnapshotFirst ==
    \A w \in Writers64 :
        pc[w] \notin {"idle", "stale"}
            => LET after == Written(w)
               IN  /\ ch64.stale.hKeys = after.hKeys
                   /\ ch64.stale.hTable = after.hTable
                   /\ ch64.stale.rTable = after.rTable

\* A Get is about to read stale while the writer has the lock and has not
\* yet written the ring itself: stale holds positions the ring does not.
C35_Witness ==
    \E w \in Writers64, r \in Readers :
        /\ pc[w] = "append"
        /\ pc[r] = "staleRead"
        /\ ch64.stale.hKeys # ch64.hKeys
        /\ ch64.stale.hKeys = Written(w).hKeys

\* C36: in lock-free mode, at every instant at which a writer holds the
\* exclusive lock of the ring itself the lockState flag is true, so that a
\* Get starting then is served by stale; the flag is false only while no
\* writer holds the lock.
C36_FlagWhileLocked ==
    mu.writer # Nil => ch64.lockState

\* C37: in every reachable state, for every position p stored in a block that
\* is also a key of hTable, the bytes the exact-match check of Get returns for
\* a key hashing to p, hTable[p], are the bytes of the owner of the block
\* entry at position p, and they are what the successor search lookup(p)
\* returns: the exact match is only a shortcut.
C37_ExactMatchIsShortcut ==
    \A n \in StoredNodes(ch) :
        (~IsEmpty(ch) /\ n.key \in DOMAIN ch.hTable)
            => /\ Get(ch, n.key) = TableBytes(ch, n.pointer)
               /\ Get(ch, n.key) = lookup(ch, n.key).v


=========================================================================
